---- MODULE Spec2Model ----
(***************************************************************************)
(* State-machine model of cheatsheet/classes.py: the Entry record and the  *)
(* CheatSheet collection with its derived indexes (id_set, tag_set,        *)
(* primary_to_entries, last_entry_id) and the modified flag.               *)
(*                                                                         *)
(* Every action is one public method call, taken to its end: either its    *)
(* return or the exception that leaves it.  `result` records the last call *)
(* (method, arguments, outcome, returned entry), `found` the list that the  *)
(* last get_entries call returned, `ctor` the Entry(...) construction under *)
(* way in the specification of the constructor.                            *)
(*                                                                         *)
(* Entry objects are referenced from `entries` and from the buckets of     *)
(* primary_to_entries.  A bucket holds references to the very objects of   *)
(* `entries`; the model writes such a reference as the position of the     *)
(* object in `entries`.  Positions only shift in remove_entry, which       *)
(* rebuilds every bucket from scratch before anything can read them.       *)
(***************************************************************************)
EXTENDS Integers, Sequences, FiniteSets, TLC

\* ---------------------------------------------------------------- bounds
\* longest `entries` list an add_entry call is made on
MaxLen == 2
\* largest small id loaded from a file, and cap of the id counter
MaxId == 2
\* number of distinct clock readings time.time() can return
MaxTime == 1

\* ---------------------------------------------------------- value domains
\* Python None in an id slot (the ids of the model are >= 0)
None == 0 - 1
\* Python None in a string slot
NoneStr == "None"
\* Python None in a tags slot
NoneTags == {"None"}
\* Python None in the modified_date slot
NoDate == 0

\* CPython keeps one shared object per int in this range; two int objects of
\* an equal value outside it are the same object only by accident of how the
\* caller obtained them.  `a is b` compares objects, not values.
SmallInts == (0 - 5) .. 256
\* the smallest positive id outside SmallInts
BigId == 256 + 1

Primaries == {"math", "cs"}
\* the clue and answer of a constructed Entry, and the ones an update supplies
Clues == {"c1"}
Answers == {"a1"}
NewClue == "c2"
NewAnswer == "a2"
TagVals == {"algebra", "logic"}
\* tag sets an Entry can be constructed with (validate: non-empty)
TagSets == (SUBSET TagVals) \ {{}}
\* ids a loader hands over, 0 included (validate accepts every int)
LoadIds == (0 .. MaxId) \cup {BigId}
\* readings of time.time()
Times == 1 .. MaxTime

\* the Entry objects a caller can construct (Entry.__init__ ran validate)
EntryVals ==
  [primary : Primaries, clue : Clues, answer : Answers, tags : TagSets,
   id : {None} \cup LoadIds]

\* ids passed to get_entry / update_entry / remove_entry
ArgIds == LoadIds
\* whether the int object passed in is the one the entry holds: for an int
\* of SmallInts there is only one object
Sameness(id) == IF id \in SmallInts THEN {TRUE} ELSE BOOLEAN

\* the "no entry" value of result.entry
NoEntry ==
  [primary |-> NoneStr, clue |-> NoneStr, answer |-> NoneStr,
   tags |-> NoneTags, id |-> None]

VARIABLES
  version, src_fname, modified, modified_date, last_entry_id,
  entries, primary_to_entries, tag_set, id_set,
  result, found, ctor

vars ==
  <<version, src_fname, modified, modified_date, last_entry_id,
    entries, primary_to_entries, tag_set, id_set, result, found, ctor>>

\* the collection's own fields (everything but the record of the last call)
sheet ==
  <<version, src_fname, modified, modified_date, last_entry_id,
    entries, primary_to_entries, tag_set, id_set>>

\* ------------------------------------------------------------- helpers
\* the empty dict
EmptyMap == [p \in {} |-> <<>>]

\* truth value of an id in `if entry.id` / `not entry.id`
Truthy(id) == id # None /\ id # 0

\* `id is e.id`: the same int object.  same_object is the caller's share:
\* whether the int object passed in is the one the entry holds.
IdIs(id, same_object, eid) ==
  id = eid /\ (id \in SmallInts \/ same_object)

\* _default_if_none for a string argument
DefaultIfNoneStr(value, default) ==
  IF value = NoneStr THEN default ELSE value

\* _default_if_none for a tags argument
DefaultIfNoneTags(value, default) ==
  IF value = NoneTags THEN default ELSE value

\* the record of the derived indexes that the two index routines work on
Maps(p2e, ts, ids, last) ==
  [primary_to_entries |-> p2e, tag_set |-> ts, id_set |-> ids,
   last_entry_id |-> last, raised |-> FALSE]

\* _update_object_maps without the comparison of line 238: last_entry_id is
\* set to the id of every entry indexed
UpdateObjectMapsNoMax(M, ents, i) ==
  LET entry == ents[i]
      p2e == M.primary_to_entries
      bucket == IF entry.primary \in DOMAIN p2e THEN p2e[entry.primary] ELSE <<>>
  IN  IF entry.id \in M.id_set
      THEN [M EXCEPT !.raised = TRUE]
      ELSE [primary_to_entries |->
              [p \in (DOMAIN p2e) \cup {entry.primary} |->
                 IF p = entry.primary THEN Append(bucket, i) ELSE p2e[p]],
            tag_set |-> M.tag_set \cup entry.tags,
            id_set |-> M.id_set \cup {entry.id},
            last_entry_id |-> entry.id,
            raised |-> FALSE]

\* _update_object_maps without the duplicate-id check of lines 225-227
UpdateObjectMapsNoCheck(M, ents, i) ==
  LET entry == ents[i]
      p2e == M.primary_to_entries
      bucket == IF entry.primary \in DOMAIN p2e THEN p2e[entry.primary] ELSE <<>>
  IN  [primary_to_entries |->
         [p \in (DOMAIN p2e) \cup {entry.primary} |->
            IF p = entry.primary THEN Append(bucket, i) ELSE p2e[p]],
       tag_set |-> M.tag_set \cup entry.tags,
       id_set |-> M.id_set \cup {entry.id},
       last_entry_id |->
         IF entry.id > M.last_entry_id THEN entry.id ELSE M.last_entry_id,
       raised |-> FALSE]

\* _update_object_maps with `self.primary_to_entries[entry.primary] = []` of
\* line 231 run for every entry, not only for a primary seen first
UpdateObjectMapsResetBucket(M, ents, i) ==
  LET entry == ents[i]
      p2e == M.primary_to_entries
  IN  IF entry.id \in M.id_set
      THEN [M EXCEPT !.raised = TRUE]
      ELSE [primary_to_entries |->
              [p \in (DOMAIN p2e) \cup {entry.primary} |->
                 IF p = entry.primary THEN <<i>> ELSE p2e[p]],
            tag_set |-> M.tag_set \cup entry.tags,
            id_set |-> M.id_set \cup {entry.id},
            last_entry_id |->
              IF entry.id > M.last_entry_id THEN entry.id ELSE M.last_entry_id,
            raised |-> FALSE]

\* CheatSheet._update_object_maps(entry), entry being ents[i]
UpdateObjectMaps(M, ents, i) ==
  LET entry == ents[i]
      p2e == M.primary_to_entries
      bucket == IF entry.primary \in DOMAIN p2e THEN p2e[entry.primary] ELSE <<>>
  IN  IF entry.id \in M.id_set
      THEN [M EXCEPT !.raised = TRUE]
      ELSE [primary_to_entries |->
              [p \in (DOMAIN p2e) \cup {entry.primary} |->
                 IF p = entry.primary THEN Append(bucket, i) ELSE p2e[p]],
            tag_set |-> M.tag_set \cup entry.tags,
            id_set |-> M.id_set \cup {entry.id},
            last_entry_id |->
              IF entry.id > M.last_entry_id THEN entry.id ELSE M.last_entry_id,
            raised |-> FALSE]

\* the loop of _recompute_object_maps from position i on; an exception of
\* _update_object_maps leaves the loop with the maps built so far
RECURSIVE Replay(_, _, _)
Replay(M, ents, i) ==
  IF i > Len(ents) THEN M
  ELSE LET M2 == UpdateObjectMaps(M, ents, i)
       IN  IF M2.raised THEN M2 ELSE Replay(M2, ents, i + 1)

\* _recompute_object_maps without the reset of id_set of line 248
RecomputeObjectMapsKeepIds(ents) ==
  Replay(Maps(EmptyMap, {}, id_set, 0), ents, 1)

\* CheatSheet._recompute_object_maps()
RecomputeObjectMaps(ents) ==
  Replay(Maps(EmptyMap, {}, {}, 0), ents, 1)

\* the scan of get_entry / remove_entry: position of the first entry whose
\* id `is` the argument, 0 when the scan finds none
RECURSIVE Scan(_, _, _, _)
Scan(ents, id, same_object, i) ==
  IF i > Len(ents) THEN 0
  ELSE IF IdIs(id, same_object, ents[i].id) THEN i
  ELSE Scan(ents, id, same_object, i + 1)

\* _set_next_entry_id returning the counter as it was before the increment
SetNextEntryIdStale(last) ==
  [last_entry_id |-> last + 1, ret |-> last]

\* CheatSheet._set_next_entry_id(): the counter after the call and the id
\* returned
SetNextEntryId(last) ==
  [last_entry_id |-> last + 1, ret |-> last + 1]

\* list.pop(i)
Pop(s, i) == SubSeq(s, 1, i - 1) \o SubSeq(s, i + 1, Len(s))

\* the record of a call: the method, how it ended ("ok" or the exception),
\* add_entry's initial_load, whether update_entry was given any field, and
\* the entry returned (for add_entry: the entry object as the call left it;
\* NoEntry when the call raised)
Call(op, outcome, initial_load, supplied, entry) ==
  [op |-> op, outcome |-> outcome, initial_load |-> initial_load,
   supplied |-> supplied, entry |-> entry]

\* update_entry's four optional arguments, all None
NoUpd ==
  [primary |-> NoneStr, clue |-> NoneStr, answer |-> NoneStr, tags |-> NoneTags]

\* a value of any Python type handed to Entry(...): its type and, by type,
\* its string, its integer or its set
StrVal(s) == [type |-> "str", str |-> s, int |-> 0, set |-> {}]
IntVal(n) == [type |-> "int", str |-> "", int |-> n, set |-> {}]
SetVal(S) == [type |-> "set", str |-> "", int |-> 0, set |-> S]
NoneVal == [type |-> "NoneType", str |-> "", int |-> 0, set |-> {}]

\* no Entry construction under way
NoCtor ==
  [primary |-> NoneVal, clue |-> NoneVal, answer |-> NoneVal,
   tags |-> NoneVal, id |-> NoneVal, outcome |-> "none"]

\* --------------------------------------------------------------- Init
\* CheatSheet.__init__ with its default arguments
NewSheet ==
  /\ version = NoneStr
  /\ src_fname = NoneStr
  /\ modified = FALSE
  /\ modified_date = NoDate
  /\ last_entry_id = 0
  /\ entries = <<>>
  /\ primary_to_entries = EmptyMap
  /\ tag_set = {}
  /\ id_set = {}
  /\ result = Call("__init__", "ok", FALSE, FALSE, NoEntry)
  /\ found = <<>>

\* a new, empty CheatSheet; no Entry is being constructed
Init ==
  /\ NewSheet
  /\ ctor = NoCtor

\* ------------------------------------------------------------- actions
\* the argument tuples update_entry is called with: nothing supplied, the
\* primary alone, clue and answer together, the tags alone
UpdArgs ==
  {NoUpd}
  \cup {[NoUpd EXCEPT !.primary = p] : p \in Primaries}
  \cup {[NoUpd EXCEPT !.clue = NewClue, !.answer = NewAnswer]}
  \cup {[NoUpd EXCEPT !.tags = t] : t \in TagSets}

\* CheatSheet.add_entry(entry, initial_load)
add_entry(entry, initial_load) ==
     IF initial_load /\ ~Truthy(entry.id)
     THEN /\ result' = Call("add_entry", "ProgrammingError", initial_load,
                            FALSE, NoEntry)
          /\ UNCHANGED sheet
     ELSE IF ~initial_load /\ Truthy(entry.id)
     THEN /\ result' = Call("add_entry", "ProgrammingError", initial_load,
                            FALSE, NoEntry)
          /\ UNCHANGED sheet
     ELSE \E now \in IF initial_load THEN {modified_date} ELSE Times :
          LET \* a fresh addition: entry.id = self._set_next_entry_id(), then
              \* _mark_modified() (modified' and modified_date' below)
              next == SetNextEntryId(last_entry_id)
              last1 == IF initial_load THEN last_entry_id ELSE next.last_entry_id
              e1 == IF initial_load THEN entry ELSE [entry EXCEPT !.id = next.ret]
              ents1 == Append(entries, e1)
              M == UpdateObjectMaps(
                     Maps(primary_to_entries, tag_set, id_set, last1),
                     ents1, Len(ents1))
          IN  /\ modified' = IF initial_load THEN modified ELSE TRUE
              /\ modified_date' = now
              /\ entries' = ents1
              /\ primary_to_entries' = M.primary_to_entries
              /\ tag_set' = M.tag_set
              /\ id_set' = M.id_set
              /\ last_entry_id' = M.last_entry_id
              /\ result' = Call("add_entry",
                                IF M.raised THEN "IllegalState" ELSE "ok",
                                initial_load, FALSE,
                                IF M.raised THEN NoEntry ELSE e1)
              /\ UNCHANGED <<version, src_fname>>

\* CheatSheet.update_entry(id, primary, clue, answer, tags); the four
\* optional arguments are the fields of upd
update_entry(id, same_object, upd) ==
  LET i == Scan(entries, id, same_object, 1)
  IN  IF i = 0
      THEN /\ result' = Call("update_entry", "InvalidID", FALSE, upd # NoUpd, NoEntry)
           /\ UNCHANGED sheet
      ELSE IF upd = NoUpd
      THEN /\ result' = Call("update_entry", "ok", FALSE, FALSE, entries[i])
           /\ UNCHANGED sheet
      ELSE \E now \in Times :
           LET entry == entries[i]
               e1 == [primary |-> DefaultIfNoneStr(upd.primary, entry.primary),
                      clue |-> DefaultIfNoneStr(upd.clue, entry.clue),
                      answer |-> DefaultIfNoneStr(upd.answer, entry.answer),
                      tags |-> DefaultIfNoneTags(upd.tags, entry.tags),
                      id |-> entry.id]
               ents1 == [entries EXCEPT ![i] = e1]
               M == RecomputeObjectMaps(ents1)
           IN  /\ entries' = ents1
               /\ modified' = TRUE
               /\ modified_date' = now
               /\ primary_to_entries' = M.primary_to_entries
               /\ tag_set' = M.tag_set
               /\ id_set' = M.id_set
               /\ last_entry_id' = M.last_entry_id
               /\ result' = Call("update_entry",
                                 IF M.raised THEN "IllegalState" ELSE "ok",
                                 FALSE, TRUE,
                                 IF M.raised THEN NoEntry ELSE e1)
               /\ UNCHANGED <<version, src_fname>>

\* CheatSheet.remove_entry(id)
remove_entry(id, same_object) ==
  LET i == Scan(entries, id, same_object, 1)
  IN  IF i = 0
      THEN /\ result' = Call("remove_entry", "InvalidID", FALSE, FALSE, NoEntry)
           /\ UNCHANGED sheet
      ELSE \E now \in Times :
           LET deleted == entries[i]
               ents1 == Pop(entries, i)
               M == RecomputeObjectMaps(ents1)
           IN  /\ entries' = ents1
               /\ modified' = TRUE
               /\ modified_date' = now
               /\ primary_to_entries' = M.primary_to_entries
               /\ tag_set' = M.tag_set
               /\ id_set' = M.id_set
               /\ last_entry_id' = M.last_entry_id
               /\ result' = Call("remove_entry",
                                 IF M.raised THEN "IllegalState" ELSE "ok",
                                 FALSE, FALSE,
                                 IF M.raised THEN NoEntry ELSE deleted)
               /\ UNCHANGED <<version, src_fname>>

\* the bounds of the model on a call of add_entry: the length of `entries`
\* and, for a fresh addition, the id counter
MayAdd(initial_load) ==
  /\ Len(entries) < MaxLen
  /\ initial_load \/ last_entry_id < MaxId

\* a call that returns no list and constructs no Entry
NoList == found' = <<>> /\ UNCHANGED ctor

Next ==
  \/ \E entry \in EntryVals, initial_load \in BOOLEAN :
       MayAdd(initial_load) /\ add_entry(entry, initial_load) /\ NoList
  \/ \E id \in ArgIds, upd \in UpdArgs :
       \E same_object \in Sameness(id) :
         update_entry(id, same_object, upd) /\ NoList
  \/ \E id \in ArgIds :
       \E same_object \in Sameness(id) :
         remove_entry(id, same_object) /\ NoList

Spec == Init /\ [][Next]_vars

\* ------------------------------------------------------------ queries
\* the global search-mode constants
SEARCH_AND == 0
SEARCH_OR == 1

\* truth value of a str-or-None argument (`not primary`, `primary and ...`)
TruthyStr(s) == s # NoneStr /\ s # ""

\* matches with `tags.intersection(self.tags)` in the SEARCH_AND branch too
matchesAnyTag(entry, andor, primary, tags) ==
  IF andor = SEARCH_AND
  THEN /\ ~TruthyStr(primary) \/ primary = entry.primary
       /\ tags = {} \/ (tags \cap entry.tags) # {}
  ELSE \/ ~TruthyStr(primary) /\ tags = {}
       \/ TruthyStr(primary) /\ primary = entry.primary
       \/ tags # {} /\ (tags \cap entry.tags) # {}

\* matches with `tags.issubset(self.tags)` in the SEARCH_OR branch too
matchesAllTags(entry, andor, primary, tags) ==
  IF andor = SEARCH_AND
  THEN /\ ~TruthyStr(primary) \/ primary = entry.primary
       /\ tags = {} \/ tags \subseteq entry.tags
  ELSE \/ ~TruthyStr(primary) /\ tags = {}
       \/ TruthyStr(primary) /\ primary = entry.primary
       \/ tags # {} /\ tags \subseteq entry.tags

\* matches without line 55, the SEARCH_OR case of no primary and no tags
matchesNoVacuous(entry, andor, primary, tags) ==
  IF andor = SEARCH_AND
  THEN /\ ~TruthyStr(primary) \/ primary = entry.primary
       /\ tags = {} \/ tags \subseteq entry.tags
  ELSE \/ TruthyStr(primary) /\ primary = entry.primary
       \/ tags # {} /\ (tags \cap entry.tags) # {}

\* Entry.matches(andor, primary, tags) for andor SEARCH_AND or SEARCH_OR, as
\* the truth value of what it returns; tags is a set (`not tags`: empty)
matches(entry, andor, primary, tags) ==
  IF andor = SEARCH_AND
  THEN /\ ~TruthyStr(primary) \/ primary = entry.primary
       /\ tags = {} \/ tags \subseteq entry.tags
  ELSE \/ ~TruthyStr(primary) /\ tags = {}
       \/ TruthyStr(primary) /\ primary = entry.primary
       \/ tags # {} /\ (tags \cap entry.tags) # {}

\* Entry.matches raises ProgrammingError on any other andor
BadMode(andor) == andor # SEARCH_AND /\ andor # SEARCH_OR

\* the list comprehension of get_entries from position i on: references to
\* the matching entries, in the order of `entries`
RECURSIVE Collect(_, _, _, _, _)
Collect(ents, andor, primary, tags, i) ==
  IF i > Len(ents) THEN <<>>
  ELSE (IF matches(ents[i], andor, primary, tags) THEN <<i>> ELSE <<>>)
       \o Collect(ents, andor, primary, tags, i + 1)

\* what CheatSheet.get_entries(andor, primary, tags) returns
GetEntries(ents, andor, primary, tags) ==
  Collect(ents, andor, primary, tags, 1)

\* the primary and tags arguments of a query; the defaults are None and {}
QueryPrimaries == {NoneStr, ""} \cup Primaries
QueryTags == SUBSET TagVals
\* an andor argument that is neither constant
OtherMode == SEARCH_OR + 1

\* CheatSheet.get_entries(andor, primary, tags); matches is only called, and
\* can only raise, when there is an entry
get_entries(andor, primary, tags) ==
  /\ IF BadMode(andor) /\ entries # <<>>
     THEN /\ result' = Call("get_entries", "ProgrammingError", FALSE, FALSE, NoEntry)
          /\ found' = <<>>
     ELSE /\ result' = Call("get_entries", "ok", FALSE, FALSE, NoEntry)
          /\ found' = IF BadMode(andor) THEN <<>>
                      ELSE GetEntries(entries, andor, primary, tags)
  /\ UNCHANGED <<sheet, ctor>>

\* CheatSheet.get_entry(id)
get_entry(id, same_object) ==
  LET i == Scan(entries, id, same_object, 1)
  IN  /\ result' = IF i = 0
                   THEN Call("get_entry", "InvalidID", FALSE, FALSE, NoEntry)
                   ELSE Call("get_entry", "ok", FALSE, FALSE, entries[i])
      /\ UNCHANGED sheet

NextQuery ==
  \/ Next
  \/ \E andor \in {SEARCH_AND, SEARCH_OR}, primary \in QueryPrimaries,
        tags \in QueryTags : get_entries(andor, primary, tags)
  \/ get_entries(OtherMode, NoneStr, {})
  \/ \E id \in ArgIds :
       \E same_object \in Sameness(id) : get_entry(id, same_object) /\ NoList

\* the collection with its queries
SpecQuery == Init /\ [][NextQuery]_vars

\* ------------------------------------------- the Entry constructor alone
\* truth value of a Python value (`not self.clue`, ...)
Truth(v) ==
  CASE v.type = "str" -> v.str # ""
    [] v.type = "int" -> v.int # 0
    [] v.type = "set" -> v.set # {}
    [] OTHER -> FALSE

\* Entry.validate(): "ok", or the exception raised
validate(e) ==
  IF ~Truth(e.clue) \/ e.clue.type # "str" THEN "InvalidEntry"
  ELSE IF ~Truth(e.primary) \/ e.primary.type # "str" THEN "InvalidEntry"
  ELSE IF ~Truth(e.answer) \/ e.answer.type # "str" THEN "InvalidEntry"
  ELSE IF ~Truth(e.tags) \/ e.tags.type # "set" THEN "InvalidEntry"
  ELSE IF e.id.type # "NoneType" /\ e.id.type # "int" THEN "InvalidEntry"
  ELSE "ok"

\* values handed to Entry(...) for primary, clue and answer
StrArgs == {StrVal("math"), StrVal(""), NoneVal, IntVal(1)}
\* values handed to Entry(...) for tags
TagArgs == {SetVal({"algebra"}), SetVal({}), NoneVal, StrVal("algebra")}
\* values handed to Entry(...) for id
IdArgs ==
  {NoneVal, IntVal(0 - 1), IntVal(0), IntVal(1), IntVal(BigId), StrVal("1")}

\* Entry(primary, clue, answer, tags, id) has been called
InitEntry ==
  /\ NewSheet
  /\ ctor \in [primary : StrArgs, clue : StrArgs, answer : StrArgs,
               tags : TagArgs, id : IdArgs, outcome : {"called"}]

\* Entry.__init__: the fields are set, then validate() decides
Entry_init ==
  /\ ctor.outcome = "called"
  /\ ctor' = [ctor EXCEPT !.outcome = validate(ctor)]
  /\ UNCHANGED <<sheet, result, found>>

NextEntry == Entry_init

SpecEntry == InitEntry /\ [][NextEntry]_vars

\* ------------------------------------------- loading a file, then adding
\* largest id found in a loaded file
MaxLoadId == 5
\* number of entries of a loaded file
MaxLoad == 3
\* the entries of a file: each carries a positive id
LoadVals ==
  [primary : Primaries, clue : Clues, answer : Answers, tags : {{"algebra"}},
   id : 1 .. MaxLoadId]
\* the entries a user adds
FreshVals == {e \in EntryVals : e.id = None}

\* the loader adds the entries of a file whose ids are distinct, one by one
\* in any order, to a collection nothing was added to yet
Load(entry) ==
  /\ ~modified
  /\ Len(entries) < MaxLoad
  /\ \A i \in DOMAIN entries : entries[i].id # entry.id
  /\ add_entry(entry, TRUE)
  /\ NoList

\* the first addition of a user after the load
FirstAdd(entry) ==
  /\ ~modified
  /\ add_entry(entry, FALSE)
  /\ NoList

NextLoad ==
  \/ \E entry \in LoadVals : Load(entry)
  \/ \E entry \in FreshVals : FirstAdd(entry)

SpecLoad == Init /\ [][NextLoad]_vars

\* ------------------------------------------------ calls that return
\* the call of this step returned: it raised no exception
Returned == result'.outcome = "ok"

\* the calls of Next that raise nothing
NextOk ==
  \/ \E entry \in EntryVals, initial_load \in BOOLEAN :
       MayAdd(initial_load) /\ add_entry(entry, initial_load) /\ NoList
       /\ Returned
  \/ \E id \in ArgIds, upd \in UpdArgs :
       \E same_object \in Sameness(id) :
         update_entry(id, same_object, upd) /\ NoList /\ Returned
  \/ \E id \in ArgIds :
       \E same_object \in Sameness(id) :
         remove_entry(id, same_object) /\ NoList /\ Returned

SpecOk == Init /\ [][NextOk]_vars

\* ------------------------------------------------ a longer collection
\* longest `entries` list an add_entry call is made on, in the
\* specification of the longer collection
MaxLong == 3
\* the entries added to the longer collection: one primary, one tag set
LongVals ==
  [primary : {"math"}, clue : Clues, answer : Answers, tags : {{"algebra"}},
   id : {None} \cup (1 .. MaxId)]
\* the updates made to it: none, or a new tag set
LongUpds == {NoUpd, [NoUpd EXCEPT !.tags = {"logic"}]}
\* the ids asked for: all of SmallInts, one object per value
LongIds == 1 .. MaxId + 1

NextLong ==
  \/ \E entry \in LongVals, initial_load \in BOOLEAN :
       /\ Len(entries) < MaxLong
       /\ initial_load \/ last_entry_id <= MaxId
       /\ add_entry(entry, initial_load) /\ NoList
  \/ \E id \in LongIds, upd \in LongUpds :
       update_entry(id, TRUE, upd) /\ NoList
  \/ \E id \in LongIds :
       remove_entry(id, TRUE) /\ NoList

SpecLong == Init /\ [][NextLong]_vars

\* ------------------------------------------------------------- claims
\* the exceptions a CheatSheet method raises
Errors == {"ProgrammingError", "InvalidID", "IllegalState"}

\* positions of `entries`
Pos == DOMAIN entries

\* {e.id for e in entries}
IdsOf(ents) == {ents[i].id : i \in DOMAIN ents}

\* union of e.tags for e in entries
TagsOf(ents) == UNION {ents[i].tags : i \in DOMAIN ents}

\* C1: in every reachable state, error states included, id_set is the set of
\* ids of `entries`, tag_set is the union of their tags, and every entry of
\* bucket primary_to_entries[p] has primary p.
C1_IndexesMatchEntries ==
  /\ id_set = IdsOf(entries)
  /\ tag_set = TagsOf(entries)
  /\ \A p \in DOMAIN primary_to_entries :
       \A k \in DOMAIN primary_to_entries[p] :
         /\ primary_to_entries[p][k] \in Pos
         /\ entries[primary_to_entries[p][k]].primary = p

\* C2: in every reachable state, error states included, no two entries of
\* `entries` share an id.
C2_IdsUnique ==
  \A i, j \in Pos : i # j => entries[i].id # entries[j].id

\* C3: a call that raises ProgrammingError, InvalidID or IllegalState leaves
\* every field of the collection as it was before the call.
C3_ErrorLeavesStateUnchanged ==
  [][result'.outcome \in Errors => UNCHANGED sheet]_vars

\* the last element of a non-empty list
Last(seq) == seq[Len(seq)]

\* C4: add_entry(e, initial_load=false) of an entry with no id gives e the id
\* last_entry_id + 1, leaves last_entry_id equal to that id, appends e as the
\* last element of `entries` and sets modified.
C4_FreshAddAssignsNextId ==
  [][\A entry \in EntryVals :
       (entry.id = None /\ add_entry(entry, FALSE)) =>
         /\ entries' = Append(entries, [entry EXCEPT !.id = last_entry_id + 1])
         /\ last_entry_id' = last_entry_id + 1
         /\ modified' = TRUE]_vars

\* a fresh addition to a collection that already holds an entry has returned
C4_Witness ==
  /\ result.op = "add_entry" /\ ~result.initial_load /\ result.outcome = "ok"
  /\ Len(entries) > 1
  /\ Last(entries).id = last_entry_id

\* C5: a successful add_entry(e, initial_load=true) of an entry carrying an
\* id keeps e.id, keeps modified and modified_date, and keeps last_entry_id
\* unless e.id is greater, in which case last_entry_id becomes e.id.
C5_LoadKeepsIdAndFlags ==
  [][\A entry \in EntryVals :
       (entry.id # None /\ add_entry(entry, TRUE) /\ result'.outcome = "ok") =>
         /\ Last(entries') = entry
         /\ result'.entry.id = entry.id
         /\ modified' = modified
         /\ modified_date' = modified_date
         /\ last_entry_id' =
              IF entry.id > last_entry_id THEN entry.id ELSE last_entry_id]_vars

\* an entry was loaded with an id below last_entry_id
C5_Witness ==
  /\ result.op = "add_entry" /\ result.initial_load /\ result.outcome = "ok"
  /\ result.entry.id < last_entry_id
  /\ Last(entries) = result.entry

\* C6: add_entry raises ProgrammingError exactly when initial_load disagrees
\* with the presence of an id (id null and initial_load, or id non-null,
\* 0 included, and not initial_load).
C6_ProgrammingErrorIffMismatch ==
  [][\A entry \in EntryVals, initial_load \in BOOLEAN :
       add_entry(entry, initial_load) =>
         (result'.outcome = "ProgrammingError"
            <=> (initial_load <=> entry.id = None))]_vars

\* C7: add_entry(e, initial_load=true) with e.id already in id_set raises
\* IllegalState; so does the second of two loads of the same id.
C7_DuplicateLoadRaises ==
  [][\A entry \in EntryVals :
       (entry.id # None /\ add_entry(entry, TRUE)) =>
         /\ entry.id \in id_set => result'.outcome = "IllegalState"
         /\ ( /\ result.op = "add_entry" /\ result.initial_load
              /\ result.outcome = "ok" /\ result.entry.id = entry.id )
            => result'.outcome = "IllegalState"]_vars

\* a load of an id that is in id_set has raised IllegalState
C7_Witness ==
  /\ result.op = "add_entry" /\ result.initial_load
  /\ result.outcome = "IllegalState"
  /\ Last(entries).id \in IdsOf(SubSeq(entries, 1, Len(entries) - 1))

\* the positions that the buckets of a primary_to_entries value refer to
Bucketed(p2e) == UNION {{p2e[p][k] : k \in DOMAIN p2e[p]} : p \in DOMAIN p2e}

\* C8: remove_entry(id) raises InvalidID when no entry has that id; when one
\* has, it returns that entry, sets modified, and leaves the entry out of
\* `entries`, its id out of id_set, the entry out of every bucket, and tag_set
\* equal to the union of the tags of the remaining entries.
C8_RemoveEntry ==
  [][\A id \in ArgIds : \A same_object \in Sameness(id) :
       remove_entry(id, same_object) =>
         IF id \notin IdsOf(entries)
         THEN result'.outcome = "InvalidID"
         ELSE /\ result'.outcome = "ok"
              /\ result'.entry.id = id
              /\ \E i \in Pos :
                   entries[i] = result'.entry /\ entries' = Pop(entries, i)
              /\ modified' = TRUE
              /\ id \notin id_set'
              /\ Bucketed(primary_to_entries') \subseteq DOMAIN entries'
              /\ tag_set' = TagsOf(entries')]_vars

\* an entry after update_entry replaced the supplied fields
Updated(entry, upd) ==
  [primary |-> IF upd.primary = NoneStr THEN entry.primary ELSE upd.primary,
   clue |-> IF upd.clue = NoneStr THEN entry.clue ELSE upd.clue,
   answer |-> IF upd.answer = NoneStr THEN entry.answer ELSE upd.answer,
   tags |-> IF upd.tags = NoneTags THEN entry.tags ELSE upd.tags,
   id |-> entry.id]

\* C9: for an existing id, update_entry with at least one field supplied
\* replaces exactly the supplied fields of that entry, sets modified, and
\* leaves id_set and tag_set as derived from the updated `entries` and the
\* updated entry in the bucket of its primary and in no other bucket.
C9_UpdateEntry ==
  [][\A id \in ArgIds, upd \in UpdArgs \ {NoUpd} :
       \A same_object \in Sameness(id) :
         (id \in IdsOf(entries) /\ update_entry(id, same_object, upd)) =>
           /\ result'.outcome = "ok"
           /\ modified' = TRUE
           /\ id_set' = IdsOf(entries')
           /\ tag_set' = TagsOf(entries')
           /\ \E i \in Pos :
                /\ entries[i].id = id
                /\ entries' = [entries EXCEPT ![i] = Updated(entries[i], upd)]
                /\ result'.entry = entries'[i]
                /\ \A p \in DOMAIN primary_to_entries' :
                     (\E k \in DOMAIN primary_to_entries'[p] :
                        primary_to_entries'[p][k] = i)
                     <=> p = entries'[i].primary]_vars

\* C10: update_entry(id) with no field supplied changes no field of the
\* collection; it returns the entry with that id when there is one and raises
\* InvalidID when there is none.
C10_UpdateNothing ==
  [][\A id \in ArgIds : \A same_object \in Sameness(id) :
       update_entry(id, same_object, NoUpd) =>
         /\ UNCHANGED sheet
         /\ IF id \in IdsOf(entries)
            THEN /\ result'.outcome = "ok"
                 /\ result'.entry.id = id
                 /\ \E i \in Pos : entries[i] = result'.entry
            ELSE result'.outcome = "InvalidID"]_vars

\* a non-empty string
NonEmptyStr(v) == v.type = "str" /\ v.str # ""

\* C13: Entry construction succeeds if and only if primary, clue and answer
\* are non-empty strings, tags is a non-empty set, and id is null or a
\* positive integer (0 and negative integers are rejected).
C13_ValidateIff ==
  ctor.outcome \in {"ok", "InvalidEntry"} =>
    (ctor.outcome = "ok" <=>
       /\ NonEmptyStr(ctor.primary)
       /\ NonEmptyStr(ctor.clue)
       /\ NonEmptyStr(ctor.answer)
       /\ ctor.tags.type = "set" /\ ctor.tags.set # {}
       /\ \/ ctor.id.type = "NoneType"
          \/ ctor.id.type = "int" /\ ctor.id.int > 0)

\* the positions a list of references names
Range(seq) == {seq[k] : k \in DOMAIN seq}

\* a list of references that follows the order of `entries`, each entry at
\* most once
InOrder(seq) == \A k \in DOMAIN seq : k > 1 => seq[k - 1] < seq[k]

\* a primary argument that is unset: None, or the empty string, which no
\* entry can have as its primary
Unset(primary) == primary = NoneStr \/ primary = ""

\* C11: get_entries(AND, primary, tags) returns, in collection order,
\* exactly the entries e with (primary unset or primary = e.primary) and
\* (tags empty or tags a subset of e.tags), and changes no collection state.
C11_GetEntriesAnd ==
  [][result'.op = "get_entries" =>
     \A primary \in QueryPrimaries, tags \in QueryTags :
       get_entries(SEARCH_AND, primary, tags) =>
         /\ UNCHANGED sheet
         /\ result'.outcome = "ok"
         /\ InOrder(found')
         /\ Range(found') =
              {i \in Pos : /\ Unset(primary) \/ primary = entries[i].primary
                           /\ tags = {} \/ tags \subseteq entries[i].tags}]_vars

\* an AND query with a primary and a tag has returned one entry of two
C11_Witness ==
  /\ result.op = "get_entries" /\ result.outcome = "ok"
  /\ Len(entries) = 2 /\ Len(found) = 1
  /\ \E i \in Pos : \E t \in TagVals :
       /\ found = GetEntries(entries, SEARCH_AND, entries[i].primary, {t})
       /\ found # GetEntries(entries, SEARCH_OR, entries[i].primary, {t})

\* C12: get_entries(OR, primary, tags) returns, in collection order, exactly
\* the entries e with (primary unset and tags empty) or (primary set and
\* = e.primary) or (tags non-empty and sharing a tag with e.tags); with no
\* primary and no tags that is every entry.  No collection state changes.
C12_GetEntriesOr ==
  [][result'.op = "get_entries" =>
     \A primary \in QueryPrimaries, tags \in QueryTags :
       get_entries(SEARCH_OR, primary, tags) =>
         /\ UNCHANGED sheet
         /\ result'.outcome = "ok"
         /\ InOrder(found')
         /\ Range(found') =
              {i \in Pos : \/ Unset(primary) /\ tags = {}
                           \/ ~Unset(primary) /\ primary = entries[i].primary
                           \/ \E t \in tags : t \in entries[i].tags}
         /\ (Unset(primary) /\ tags = {}) => Range(found') = Pos]_vars

\* an OR query with a primary and a tag has returned both entries, one for
\* its primary alone and one for its tag alone
C12_Witness ==
  /\ result.op = "get_entries" /\ result.outcome = "ok"
  /\ found = <<1, 2>>
  /\ \E t \in TagVals :
       /\ found = GetEntries(entries, SEARCH_OR, entries[1].primary, {t})
       /\ entries[2].primary # entries[1].primary
       /\ t \notin entries[1].tags

\* C15: get_entry(id) returns an entry of `entries` with that id when id is
\* in id_set, raises InvalidID when it is not, and changes no state.
C15_GetEntry ==
  [][result'.op = "get_entry" =>
     \A id \in ArgIds : \A same_object \in Sameness(id) :
       get_entry(id, same_object) =>
         /\ UNCHANGED sheet
         /\ IF id \in id_set
            THEN /\ result'.outcome = "ok"
                 /\ result'.entry.id = id
                 /\ \E i \in Pos : entries[i] = result'.entry
            ELSE result'.outcome = "InvalidID"]_vars

\* C20: for every primary and tag set, each entry that get_entries(AND, ...)
\* returns is returned by get_entries(OR, ...) too, and both lists follow
\* the order of `entries`.
C20_AndWithinOr ==
  \A primary \in QueryPrimaries, tags \in QueryTags :
    /\ Range(GetEntries(entries, SEARCH_AND, primary, tags))
         \subseteq Range(GetEntries(entries, SEARCH_OR, primary, tags))
    /\ InOrder(GetEntries(entries, SEARCH_AND, primary, tags))
    /\ InOrder(GetEntries(entries, SEARCH_OR, primary, tags))

\* after a get_entries(OR, ...) call that returned two entries, of which the
\* AND query with the same arguments returns only one
C20_Witness ==
  /\ result.op = "get_entries" /\ result.outcome = "ok"
  /\ \E primary \in QueryPrimaries, tags \in QueryTags :
       /\ found = GetEntries(entries, SEARCH_OR, primary, tags)
       /\ Len(found) = 2
       /\ Len(GetEntries(entries, SEARCH_AND, primary, tags)) = 1

\* largest element of a non-empty set of integers
Max(S) == CHOOSE x \in S : \A y \in S : y <= x

\* C14: starting from an empty collection, after each load of entries with
\* distinct positive ids (in any order) last_entry_id is the largest loaded
\* id, and the next add_entry(e, initial_load=false) gives e the largest
\* loaded id plus 1.
C14_LoadThenFresh ==
  [][/\ \A entry \in LoadVals :
          Load(entry) => last_entry_id' = Max(IdsOf(entries'))
     /\ \A entry \in FreshVals :
          (entries # <<>> /\ FirstAdd(entry)) =>
            /\ result'.outcome = "ok"
            /\ Last(entries').id = Max(IdsOf(entries)) + 1]_vars

\* ids 1, 3 and 5 were loaded, 5 not last, and the fresh addition after them
\* got id 6
C14_Witness ==
  /\ result.op = "add_entry" /\ ~result.initial_load /\ result.outcome = "ok"
  /\ Len(entries) = 4
  /\ {entries[i].id : i \in 1 .. 3} = {1, 3, 5}
  /\ entries[3].id # 5
  /\ entries[4].id = 6

\* C16: in every state reachable by add_entry, update_entry and remove_entry
\* calls, raising calls included, last_entry_id is at least the largest id
\* of an entry of `entries`, and at least 0 when `entries` is empty.
C16_LastIdBoundsIds ==
  last_entry_id >= Max(IdsOf(entries) \cup {0})

C17_BucketsPartitionEntries ==
  /\ \A i \in Pos :
       /\ entries[i].primary \in DOMAIN primary_to_entries
       /\ \A p \in DOMAIN primary_to_entries :
            Cardinality({k \in DOMAIN primary_to_entries[p] :
                           primary_to_entries[p][k] = i})
              = IF p = entries[i].primary THEN 1 ELSE 0
  /\ \A p \in DOMAIN primary_to_entries :
       /\ Range(primary_to_entries[p]) \subseteq Pos
       /\ InOrder(primary_to_entries[p])
       /\ primary_to_entries[p] # <<>>

\* two entries share a bucket after an update_entry moved the first one there
C17_Witness ==
  /\ result.op = "update_entry" /\ result.outcome = "ok" /\ result.supplied
  /\ Len(entries) = 2
  /\ result.entry = entries[1]
  /\ DOMAIN primary_to_entries = {entries[1].primary}
  /\ primary_to_entries[entries[1].primary] = <<1, 2>>

\* C19: in every state reached by calls that did not raise, the full rebuild
\* completes without error and yields the id_set, tag_set, primary_to_entries
\* and last_entry_id the collection already has.
C19_RebuildAgrees ==
  RecomputeObjectMaps(entries)
    = Maps(primary_to_entries, tag_set, id_set, last_entry_id)

\* the indexes were last changed by the incremental path (an add_entry onto
\* an earlier entry of another primary and a larger id), not by a rebuild
C19_Witness ==
  /\ result.op = "add_entry" /\ result.outcome = "ok"
  /\ Len(entries) = 2
  /\ entries[1].primary # entries[2].primary
  /\ entries[1].id > entries[2].id
  /\ last_entry_id = entries[1].id

====
